---------------------------- MODULE Spec2Model ----------------------------
(***************************************************************************)
(* Bit-banged I2C master and SSD1306 OLED driver of the TinyOLEDdemo       *)
(* firmware: the ATtiny13 text demo (src/software/main.c) and the ATtiny10 *)
(* big-digit demo (src/software/TinyOLEDdemo_t10_bignumbers/main.c).       *)
(*                                                                         *)
(* Definitions of the ATtiny13 program keep their C names; those of the    *)
(* ATtiny10 program carry the prefix T10_.  The I2C engine is modelled one *)
(* source line per step on a record holding the port registers and the     *)
(* engine's locals (pc is the source line about to execute).  The OLED     *)
(* functions never read anything back from the engine, so each is the      *)
(* sequence of engine calls it makes, computed loop by loop as in the C.   *)
(***************************************************************************)
EXTENDS Integers, Sequences, FiniteSets, TLC

VARIABLES
  prog,        \* which firmware runs: "t13" (text demo) or "t10" (big digits)
  eng,         \* MCU port registers and the I2C engine's frame
  eng2,        \* the same MCU in a second run (two-run specification only)
  mon,         \* a passive observer of the two wires
  calls,       \* engine calls the current driver statement still has to make
  api,         \* engine calls made by the caller in the observation window
  main_pc,     \* source line of main about to execute
  main_i,      \* main's loop variable i (text demo)
  buffer,      \* main's screen buffer (big-digit demo)
  counter_a,   \* main's 8-bit counters (big-digit demo)
  counter_b,
  counter_c,
  refreshes,   \* completed iterations of the big-digit main loop
  job,         \* function application under test (function specification)
  out,         \* its result
  diverged     \* the pins of the two runs have read differently during this call

vars == <<prog, eng, eng2, mon, calls, api, main_pc, main_i, buffer,
          counter_a, counter_b, counter_c, refreshes, job, out, diverged>>

mainvars == <<main_pc, main_i, buffer, counter_a, counter_b, counter_c, refreshes>>

-----------------------------------------------------------------------------
(* Bounds of the model *)

\* iterations of the big-digit main loop that are explored
MaxRefresh == 2
\* longest string handed to OLED_printP in the function specification
MaxStrLen == 2

\* iterations of the big-digit main loop followed on either side of a carry
MaxIter == 300

-----------------------------------------------------------------------------
(* C integer arithmetic: int is 16 bits wide on AVR, uint8_t is 8 bits *)

Bit(x, n) == (x \div (2 ^ n)) % 2

\* the operands are bound as values, so that each is evaluated once
BitAnd(a, b) ==
  LET and(x, y) ==
        LET f[n \in 0..16] == IF n = 16 THEN 0
                              ELSE Bit(x, n) * Bit(y, n) * (2 ^ n) + f[n + 1]
        IN f[0]
  IN  CHOOSE r \in { and(x, y) : x \in {a}, y \in {b} } : TRUE

BitOr(a, b) ==
  LET or(x, y) ==
        LET f[n \in 0..16] == IF n = 16 THEN 0
                              ELSE (IF Bit(x, n) + Bit(y, n) > 0 THEN 2 ^ n ELSE 0) + f[n + 1]
        IN f[0]
  IN  CHOOSE r \in { or(x, y) : x \in {a}, y \in {b} } : TRUE

\* ~x on an int
BitNot(x) == 65535 - x

Shl(x, n) == (x * (2 ^ n)) % 65536

Shr(x, n) == x \div (2 ^ n)

\* assignment to a uint8_t
U8(x) == x % 256

\* assignment to a uint16_t
U16(x) == x % 65536

-----------------------------------------------------------------------------
(* Pins and port macros (identical in both programs) *)

PB0 == 0
PB2 == 2
I2C_SDA == PB0
I2C_SCL == PB2

\* SDA made HIGH by driving the pin instead of releasing it
I2C_SDA_HIGH_driven(e) ==
  [e EXCEPT !.PORTB = U8(BitOr(@, Shl(1, I2C_SDA))),
            !.DDRB = U8(BitOr(@, Shl(1, I2C_SDA))),
            !.ops = Append(@, "SDA_HIGH")]

\* DDRB &= ~(1<<I2C_SDA): release SDA, pulled HIGH by the resistor
I2C_SDA_HIGH(e) ==
  [e EXCEPT !.DDRB = U8(BitAnd(@, BitNot(Shl(1, I2C_SDA)))),
            !.ops = Append(@, "SDA_HIGH")]

\* DDRB |= (1<<I2C_SDA): SDA as output, pulled LOW by the MCU
I2C_SDA_LOW(e) ==
  [e EXCEPT !.DDRB = U8(BitOr(@, Shl(1, I2C_SDA))),
            !.ops = Append(@, "SDA_LOW")]

\* DDRB &= ~(1<<I2C_SCL)
I2C_SCL_HIGH(e) ==
  [e EXCEPT !.DDRB = U8(BitAnd(@, BitNot(Shl(1, I2C_SCL)))),
            !.ops = Append(@, "SCL_HIGH")]

\* DDRB |= (1<<I2C_SCL)
I2C_SCL_LOW(e) ==
  [e EXCEPT !.DDRB = U8(BitOr(@, Shl(1, I2C_SCL))),
            !.ops = Append(@, "SCL_LOW")]

\* PINB & (1<<I2C_SDA)
I2C_SDA_READ(e) == BitAnd(e.PINB, Shl(1, I2C_SDA))

-----------------------------------------------------------------------------
(* Control flow of the engine frame *)

Goto(e, line) == [e EXCEPT !.pc = line]

\* the callee's frame, with its locals, is gone
Return(e) == [e EXCEPT !.fn = "idle", !.pc = 0, !.i = 0, !.data = 0, !.addr = 0, !.ack = 0]

-----------------------------------------------------------------------------
(* ATtiny13 I2C engine, src/software/main.c *)

I2C_init(e) ==
  CASE e.pc = 153 ->
         Goto([e EXCEPT !.DDRB = U8(BitAnd(@, BitNot(BitOr(Shl(1, I2C_SDA), Shl(1, I2C_SCL)))))], 154)
    [] e.pc = 154 ->
         Return([e EXCEPT !.PORTB = U8(BitAnd(@, BitNot(BitOr(Shl(1, I2C_SDA), Shl(1, I2C_SCL)))))])

I2C_start(e) ==
  CASE e.pc = 159 -> Goto(I2C_SDA_LOW(e), 160)
    [] e.pc = 160 -> Return(I2C_SCL_LOW(e))

\* the stop that leaves SDA driven LOW
I2C_stop_held(e) ==
  CASE e.pc = 165 -> Goto(I2C_SDA_LOW(e), 166)
    [] e.pc = 166 -> Goto(I2C_SCL_HIGH(e), 167)
    [] e.pc = 167 -> Return(e)

I2C_stop(e) ==
  CASE e.pc = 165 -> Goto(I2C_SDA_LOW(e), 166)
    [] e.pc = 166 -> Goto(I2C_SCL_HIGH(e), 167)
    [] e.pc = 167 -> Return(I2C_SDA_HIGH(e))

\* the byte sent least significant bit first
I2C_write_lsb(e) ==
  CASE e.pc = 172 -> [e EXCEPT !.i = 8, !.pc = IF 8 # 0 THEN 173 ELSE 178]
    [] e.pc = 173 -> Goto(I2C_SDA_LOW(e), 174)
    [] e.pc = 174 -> Goto(IF BitAnd(e.data, 1) # 0 THEN I2C_SDA_HIGH(e) ELSE e, 175)
    [] e.pc = 175 -> Goto(I2C_SCL_HIGH(e), 176)
    [] e.pc = 176 ->
         LET i1 == U8(e.i + 255)
             d1 == Shr(e.data, 1)
         IN  [I2C_SCL_LOW(e) EXCEPT !.i = i1, !.data = d1,
                                    !.pc = IF i1 # 0 THEN 173 ELSE 178]
    [] e.pc = 178 -> Goto(I2C_SDA_HIGH(e), 179)
    [] e.pc = 179 -> Goto(I2C_SCL_HIGH(e), 180)
    [] e.pc = 180 -> Return(I2C_SCL_LOW(e))

\* the write releasing SDA for the acknowledge bit after SCL instead of before
I2C_write_late_release(e) ==
  CASE e.pc = 172 -> [e EXCEPT !.i = 8, !.pc = IF 8 # 0 THEN 173 ELSE 178]
    [] e.pc = 173 -> Goto(I2C_SDA_LOW(e), 174)
    [] e.pc = 174 -> Goto(IF BitAnd(e.data, 128) # 0 THEN I2C_SDA_HIGH(e) ELSE e, 175)
    [] e.pc = 175 -> Goto(I2C_SCL_HIGH(e), 176)
    [] e.pc = 176 ->
         LET i1 == U8(e.i + 255)
             d1 == U8(Shl(e.data, 1))
         IN  [I2C_SCL_LOW(e) EXCEPT !.i = i1, !.data = d1,
                                    !.pc = IF i1 # 0 THEN 173 ELSE 178]
    [] e.pc = 178 -> Goto(I2C_SCL_HIGH(e), 179)
    [] e.pc = 179 -> Goto(I2C_SDA_HIGH(e), 180)
    [] e.pc = 180 -> Return(I2C_SCL_LOW(e))

\* the write waiting, after each release of SCL in a data bit, until SCL
\* reads HIGH
I2C_write_stretch(e) ==
  CASE e.pc = 172 -> [e EXCEPT !.i = 8, !.pc = IF 8 # 0 THEN 173 ELSE 178]
    [] e.pc = 173 -> Goto(I2C_SDA_LOW(e), 174)
    [] e.pc = 174 -> Goto(IF BitAnd(e.data, 128) # 0 THEN I2C_SDA_HIGH(e) ELSE e, 175)
    [] e.pc = 175 -> Goto(I2C_SCL_HIGH(e), 176)
    [] e.pc = 176 ->
         IF BitAnd(e.PINB, Shl(1, I2C_SCL)) = 0 THEN e
         ELSE LET i1 == U8(e.i + 255)
                  d1 == U8(Shl(e.data, 1))
              IN  [I2C_SCL_LOW(e) EXCEPT !.i = i1, !.data = d1,
                                         !.pc = IF i1 # 0 THEN 173 ELSE 178]
    [] e.pc = 178 -> Goto(I2C_SDA_HIGH(e), 179)
    [] e.pc = 179 -> Goto(I2C_SCL_HIGH(e), 180)
    [] e.pc = 180 -> Return(I2C_SCL_LOW(e))

\* the byte loop without its test, for(uint8_t i = 8; ; i--, data<<=1)
I2C_write_forever(e) ==
  CASE e.pc = 172 -> [e EXCEPT !.i = 8, !.pc = 173]
    [] e.pc = 173 -> Goto(I2C_SDA_LOW(e), 174)
    [] e.pc = 174 -> Goto(IF BitAnd(e.data, 128) # 0 THEN I2C_SDA_HIGH(e) ELSE e, 175)
    [] e.pc = 175 -> Goto(I2C_SCL_HIGH(e), 176)
    [] e.pc = 176 ->
         LET i1 == U8(e.i + 255)
             d1 == U8(Shl(e.data, 1))
         IN  [I2C_SCL_LOW(e) EXCEPT !.i = i1, !.data = d1, !.pc = 173]
    [] e.pc = 178 -> Goto(I2C_SDA_HIGH(e), 179)
    [] e.pc = 179 -> Goto(I2C_SCL_HIGH(e), 180)
    [] e.pc = 180 -> Return(I2C_SCL_LOW(e))

\* the start that sends nothing itself
T10_I2C_start_bare(e) ==
  CASE e.pc = 141 -> Goto(I2C_SDA_LOW(e), 142)
    [] e.pc = 142 -> Goto(I2C_SCL_LOW(e), 143)
    [] e.pc = 143 -> Return(e)

\* for(uint8_t i = 8; i; i--, data<<=1) { ... }: line 172 is the loop's
\* initialisation and first test; the increment and the test that follow the
\* body run with the body's last line, 176.
I2C_write(e) ==
  CASE e.pc = 172 -> [e EXCEPT !.i = 8, !.pc = IF 8 # 0 THEN 173 ELSE 178]
    [] e.pc = 173 -> Goto(I2C_SDA_LOW(e), 174)
    [] e.pc = 174 -> Goto(IF BitAnd(e.data, 128) # 0 THEN I2C_SDA_HIGH(e) ELSE e, 175)
    [] e.pc = 175 -> Goto(I2C_SCL_HIGH(e), 176)
    [] e.pc = 176 ->
         LET i1 == U8(e.i + 255)
             d1 == U8(Shl(e.data, 1))
         IN  [I2C_SCL_LOW(e) EXCEPT !.i = i1, !.data = d1,
                                    !.pc = IF i1 # 0 THEN 173 ELSE 178]
    [] e.pc = 178 -> Goto(I2C_SDA_HIGH(e), 179)
    [] e.pc = 179 -> Goto(I2C_SCL_HIGH(e), 180)
    [] e.pc = 180 -> Return(I2C_SCL_LOW(e))

\* the byte assembled least significant bit first
I2C_read_lsb(e) ==
  CASE e.pc = 185 -> [e EXCEPT !.data = 0, !.pc = 186]
    [] e.pc = 186 -> Goto(I2C_SDA_HIGH(e), 187)
    [] e.pc = 187 -> [e EXCEPT !.i = 8, !.pc = IF 8 # 0 THEN 188 ELSE 193]
    [] e.pc = 188 -> [e EXCEPT !.data = Shr(@, 1), !.pc = 189]
    [] e.pc = 189 -> Goto(I2C_SCL_HIGH(e), 190)
    [] e.pc = 190 ->
         LET r == I2C_SDA_READ(e)
         IN  [e EXCEPT !.data = IF r # 0 THEN U8(BitOr(@, 128)) ELSE @,
                       !.ops = Append(@, IF r # 0 THEN "SDA_READ_1" ELSE "SDA_READ_0"),
                       !.pc = 191]
    [] e.pc = 191 ->
         LET i1 == U8(e.i + 255)
         IN  [I2C_SCL_LOW(e) EXCEPT !.i = i1, !.pc = IF i1 # 0 THEN 188 ELSE 193]
    [] e.pc = 193 -> Goto(IF e.ack # 0 THEN I2C_SDA_LOW(e) ELSE e, 194)
    [] e.pc = 194 -> Goto(I2C_SCL_HIGH(e), 195)
    [] e.pc = 195 -> Goto(I2C_SCL_LOW(e), 196)
    [] e.pc = 196 -> Goto(I2C_SDA_HIGH(e), 197)
    [] e.pc = 197 -> Return([e EXCEPT !.ret = e.data])

\* uint8_t I2C_read(uint8_t ack): line 185 is the initialisation of data,
\* line 187 the loop's initialisation and first test, line 191 the body's
\* last line with the decrement and the test, line 197 the return.  The
\* level read at line 190 is noted in ops.
I2C_read(e) ==
  CASE e.pc = 185 -> [e EXCEPT !.data = 0, !.pc = 186]
    [] e.pc = 186 -> Goto(I2C_SDA_HIGH(e), 187)
    [] e.pc = 187 -> [e EXCEPT !.i = 8, !.pc = IF 8 # 0 THEN 188 ELSE 193]
    [] e.pc = 188 -> [e EXCEPT !.data = U8(Shl(@, 1)), !.pc = 189]
    [] e.pc = 189 -> Goto(I2C_SCL_HIGH(e), 190)
    [] e.pc = 190 ->
         LET r == I2C_SDA_READ(e)
         IN  [e EXCEPT !.data = IF r # 0 THEN U8(BitOr(@, 1)) ELSE @,
                       !.ops = Append(@, IF r # 0 THEN "SDA_READ_1" ELSE "SDA_READ_0"),
                       !.pc = 191]
    [] e.pc = 191 ->
         LET i1 == U8(e.i + 255)
         IN  [I2C_SCL_LOW(e) EXCEPT !.i = i1, !.pc = IF i1 # 0 THEN 188 ELSE 193]
    [] e.pc = 193 -> Goto(IF e.ack # 0 THEN I2C_SDA_LOW(e) ELSE e, 194)
    [] e.pc = 194 -> Goto(I2C_SCL_HIGH(e), 195)
    [] e.pc = 195 -> Goto(I2C_SCL_LOW(e), 196)
    [] e.pc = 196 -> Goto(I2C_SDA_HIGH(e), 197)
    [] e.pc = 197 -> Return([e EXCEPT !.ret = e.data])

-----------------------------------------------------------------------------
(* ATtiny10 I2C engine, src/software/TinyOLEDdemo_t10_bignumbers/main.c *)

T10_I2C_init(e) ==
  CASE e.pc = 120 ->
         Goto([e EXCEPT !.DDRB = U8(BitAnd(@, BitNot(BitOr(Shl(1, I2C_SDA), Shl(1, I2C_SCL)))))], 121)
    [] e.pc = 121 ->
         Return([e EXCEPT !.PORTB = U8(BitAnd(@, BitNot(BitOr(Shl(1, I2C_SDA), Shl(1, I2C_SCL)))))])

\* for(uint8_t i = 8; i; i--) { ... data<<=1; ... }; line 135 is the nop
T10_I2C_write(e) ==
  CASE e.pc = 126 -> [e EXCEPT !.i = 8, !.pc = IF 8 # 0 THEN 127 ELSE 133]
    [] e.pc = 127 -> Goto(I2C_SDA_LOW(e), 128)
    [] e.pc = 128 -> Goto(IF BitAnd(e.data, 128) # 0 THEN I2C_SDA_HIGH(e) ELSE e, 129)
    [] e.pc = 129 -> Goto(I2C_SCL_HIGH(e), 130)
    [] e.pc = 130 -> [e EXCEPT !.data = U8(Shl(@, 1)), !.pc = 131]
    [] e.pc = 131 ->
         LET i1 == U8(e.i + 255)
         IN  [I2C_SCL_LOW(e) EXCEPT !.i = i1, !.pc = IF i1 # 0 THEN 127 ELSE 133]
    [] e.pc = 133 -> Goto(I2C_SDA_HIGH(e), 134)
    [] e.pc = 134 -> Goto(I2C_SCL_HIGH(e), 135)
    [] e.pc = 135 -> Goto(e, 136)
    [] e.pc = 136 -> Return(I2C_SCL_LOW(e))

\* line 143, I2C_write(addr), is the function's last statement: control
\* passes to I2C_write, which returns to I2C_start's caller
T10_I2C_start(e) ==
  CASE e.pc = 141 -> Goto(I2C_SDA_LOW(e), 142)
    [] e.pc = 142 -> Goto(I2C_SCL_LOW(e), 143)
    [] e.pc = 143 -> [e EXCEPT !.fn = "T10_I2C_write", !.data = e.addr, !.pc = 126]

T10_I2C_stop(e) ==
  CASE e.pc = 148 -> Goto(I2C_SDA_LOW(e), 149)
    [] e.pc = 149 -> Goto(I2C_SCL_HIGH(e), 150)
    [] e.pc = 150 -> Return(I2C_SDA_HIGH(e))

-----------------------------------------------------------------------------
(* Program memory of the ATtiny13 program *)

OLED_ADDR == 120
OLED_INIT_LEN == 18

OLED_INIT_CMD ==
  << 168, 31,        \* 0xA8 0x1F  set multiplex
     34, 0, 3,       \* 0x22 0x00 0x03  set min and max page
     32, 0,          \* 0x20 0x00  horizontal memory addressing mode
     211, 0,         \* 0xD3 0x00  vertical shift 0
     218, 2,         \* 0xDA 0x02  COM pins sequential
     219, 64,        \* 0xDB 0x40  vcom detect
     217, 241,       \* 0xD9 0xF1  pre-charge period
     141, 20,        \* 0x8D 0x14  enable charge pump
     175,            \* 0xAF  switch on OLED
     161, 200 >>     \* 0xA1 0xC8  flip the screen

OLED_font ==
  <<
     0, 0, 0, 0, 0,
     0, 0, 47, 0, 0,
     0, 7, 0, 7, 0,
     20, 127, 20, 127, 20,
     36, 42, 127, 42, 18,
     98, 100, 8, 19, 35,
     54, 73, 85, 34, 80,
     0, 5, 3, 0, 0,
     0, 28, 34, 65, 0,
     0, 65, 34, 28, 0,
     20, 8, 62, 8, 20,
     8, 8, 62, 8, 8,
     0, 0, 160, 96, 0,
     8, 8, 8, 8, 8,
     0, 96, 96, 0, 0,
     32, 16, 8, 4, 2,
     62, 81, 73, 69, 62,
     0, 66, 127, 64, 0,
     66, 97, 81, 73, 70,
     33, 65, 69, 75, 49,
     24, 20, 18, 127, 16,
     39, 69, 69, 69, 57,
     60, 74, 73, 73, 48,
     1, 113, 9, 5, 3,
     54, 73, 73, 73, 54,
     6, 73, 73, 41, 30,
     0, 54, 54, 0, 0,
     0, 86, 54, 0, 0,
     8, 20, 34, 65, 0,
     20, 20, 20, 20, 20,
     0, 65, 34, 20, 8,
     2, 1, 81, 9, 6,
     50, 73, 89, 81, 62,
     124, 18, 17, 18, 124,
     127, 73, 73, 73, 54,
     62, 65, 65, 65, 34,
     127, 65, 65, 34, 28,
     127, 73, 73, 73, 65,
     127, 9, 9, 9, 1,
     62, 65, 73, 73, 122,
     127, 8, 8, 8, 127,
     0, 65, 127, 65, 0,
     32, 64, 65, 63, 1,
     127, 8, 20, 34, 65,
     127, 64, 64, 64, 64,
     127, 2, 12, 2, 127,
     127, 4, 8, 16, 127,
     62, 65, 65, 65, 62,
     127, 9, 9, 9, 6,
     62, 65, 81, 33, 94,
     127, 9, 25, 41, 70,
     70, 73, 73, 73, 49,
     1, 1, 127, 1, 1,
     63, 64, 64, 64, 63,
     31, 32, 64, 32, 31,
     63, 64, 56, 64, 63,
     99, 20, 8, 20, 99,
     7, 8, 112, 8, 7,
     97, 81, 73, 69, 67,
     0, 127, 65, 65, 0,
     2, 4, 8, 16, 32,
     0, 65, 65, 127, 0,
     4, 2, 1, 2, 4,
     64, 64, 64, 64, 64
  >>

\* "HELLO WORLD !" and "ATTINY13 GOES OLED !", zero-terminated
Message1 == << 72, 69, 76, 76, 79, 32, 87, 79, 82, 76, 68, 32, 33, 0 >>

Message2 == << 65, 84, 84, 73, 78, 89, 49, 51, 32, 71, 79, 69, 83, 32,
               79, 76, 69, 68, 32, 33, 0 >>

\* pgm_read_byte(&table[index]); a pointer into a table is the table with
\* the 0-based index
pgm_read_byte(table, index) == table[index + 1]

-----------------------------------------------------------------------------
(* OLED functions of the ATtiny13 program: the engine calls each makes *)

\* the loop running over the whole table
RECURSIVE OLED_init_for_all(_)
OLED_init_for_all(i) ==
  IF i < Len(OLED_INIT_CMD)
    THEN << <<"I2C_write", pgm_read_byte(OLED_INIT_CMD, i)>> >> \o OLED_init_for_all(U8(i + 1))
    ELSE << >>

RECURSIVE OLED_init_for(_)
OLED_init_for(i) ==
  IF i < OLED_INIT_LEN
    THEN << <<"I2C_write", pgm_read_byte(OLED_INIT_CMD, i)>> >> \o OLED_init_for(U8(i + 1))
    ELSE << >>

OLED_init ==
  << <<"I2C_init">>, <<"I2C_start">>, <<"I2C_write", OLED_ADDR>>, <<"I2C_write", 0>> >>
  \o OLED_init_for(0)
  \o << <<"I2C_stop">> >>

RECURSIVE OLED_printC_for(_, _)
OLED_printC_for(i, offset) ==
  IF i # 0
    THEN << <<"I2C_write", pgm_read_byte(OLED_font, offset)>> >>
         \o OLED_printC_for(U8(i + 255), U16(offset + 1))
    ELSE << >>

\* the character with its spacing column after the glyph instead of before
OLED_printC_trailing(ch) ==
  LET offset == U16((ch - 32) * 5 + 65536)
  IN  OLED_printC_for(5, offset) \o << <<"I2C_write", 0>> >>

OLED_printC(ch) ==
  LET offset == U16((ch - 32) * 5 + 65536)
  IN  << <<"I2C_write", 0>> >> \o OLED_printC_for(5, offset)

\* p is the zero-terminated string in program memory, n the distance the
\* pointer has advanced (++p), ch the character last read
RECURSIVE OLED_printP_while(_, _, _)
OLED_printP_while(p, n, ch) ==
  IF ch # 0
    THEN OLED_printC(ch) \o OLED_printP_while(p, n + 1, pgm_read_byte(p, n + 1))
    ELSE << >>

OLED_printP(p) ==
  << <<"I2C_start">>, <<"I2C_write", OLED_ADDR>>, <<"I2C_write", 64>> >>
  \o OLED_printP_while(p, 0, pgm_read_byte(p, 0))
  \o << <<"I2C_stop">> >>

\* the offsets of OLED_font read by the loop of OLED_printC through
\* pgm_read_byte(&OLED_font[offset++]), in the order of the reads
RECURSIVE OLED_printC_reads(_, _)
OLED_printC_reads(i, offset) ==
  IF i # 0
    THEN <<offset>> \o OLED_printC_reads(U8(i + 255), U16(offset + 1))
    ELSE << >>

\* the characters that the loop of OLED_printP passes to OLED_printC
RECURSIVE OLED_printP_chars(_, _, _)
OLED_printP_chars(p, n, ch) ==
  IF ch # 0
    THEN <<ch>> \o OLED_printP_chars(p, n + 1, pgm_read_byte(p, n + 1))
    ELSE << >>

\* the cursor transaction left open
OLED_cursor_nostop(xpos, ypos) ==
  << <<"I2C_start">>,
     <<"I2C_write", OLED_ADDR>>,
     <<"I2C_write", 0>>,
     <<"I2C_write", U8(BitAnd(xpos, 15))>>,
     <<"I2C_write", U8(BitOr(16, Shr(xpos, 4)))>>,
     <<"I2C_write", U8(BitOr(176, BitAnd(ypos, 7)))>> >>

\* the cursor transaction without its mode byte
OLED_cursor_nomode(xpos, ypos) ==
  << <<"I2C_start">>,
     <<"I2C_write", OLED_ADDR>>,
     <<"I2C_write", U8(BitAnd(xpos, 15))>>,
     <<"I2C_write", U8(BitOr(16, Shr(xpos, 4)))>>,
     <<"I2C_write", U8(BitOr(176, BitAnd(ypos, 7)))>>,
     <<"I2C_stop">> >>

\* the cursor transaction with the two column commands in the other order
OLED_cursor_swapped(xpos, ypos) ==
  << <<"I2C_start">>,
     <<"I2C_write", OLED_ADDR>>,
     <<"I2C_write", 0>>,
     <<"I2C_write", U8(BitOr(16, Shr(xpos, 4)))>>,
     <<"I2C_write", U8(BitAnd(xpos, 15))>>,
     <<"I2C_write", U8(BitOr(176, BitAnd(ypos, 7)))>>,
     <<"I2C_stop">> >>

OLED_cursor(xpos, ypos) ==
  << <<"I2C_start">>,
     <<"I2C_write", OLED_ADDR>>,
     <<"I2C_write", 0>>,
     <<"I2C_write", U8(BitAnd(xpos, 15))>>,
     <<"I2C_write", U8(BitOr(16, Shr(xpos, 4)))>>,
     <<"I2C_write", U8(BitOr(176, BitAnd(ypos, 7)))>>,
     <<"I2C_stop">> >>

\* the loop with an 8-bit counter
OLED_clear_for_u8(i) == [k \in 1..U8(i) |-> <<"I2C_write", 0>>]

\* for(uint16_t i=512; i; i--) I2C_write(0x00); the counter, of 16 bits, goes
\* through i, i-1, ..., 1 and the body runs once for each of these values
OLED_clear_for(i) == [k \in 1..U16(i) |-> <<"I2C_write", 0>>]

OLED_clear ==
  OLED_cursor(0, 0)
  \o << <<"I2C_start">>, <<"I2C_write", OLED_ADDR>>, <<"I2C_write", 64>> >>
  \o OLED_clear_for(512)
  \o << <<"I2C_stop">> >>

-----------------------------------------------------------------------------
(* Program memory of the ATtiny10 program *)

T10_OLED_ADDR == 120
T10_OLED_CMD_MODE == 0
T10_OLED_DAT_MODE == 64
T10_OLED_INIT_LEN == 15

T10_OLED_INIT_CMD ==
  << 168, 31,        \* 0xA8 0x1F  set multiplex
     34, 0, 3,       \* 0x22 0x00 0x03  set min and max page
     32, 1,          \* 0x20 0x01  vertical memory addressing mode
     218, 2,         \* 0xDA 0x02  COM pins sequential
     141, 20,        \* 0x8D 0x14  enable charge pump
     175,            \* 0xAF  switch on OLED
     0, 16, 176,     \* 0x00 0x10 0xB0  cursor at home position
     161, 200 >>     \* 0xA1 0xC8  flip the screen

T10_OLED_FONT ==
  << 127, 65, 127,   \* 0
     0, 0, 127,      \* 1
     121, 73, 79,    \* 2
     65, 73, 127,    \* 3
     15, 8, 126,     \* 4
     79, 73, 121,    \* 5
     127, 73, 121,   \* 6
     3, 1, 127,      \* 7
     127, 73, 127,   \* 8
     79, 73, 127,    \* 9
     127, 9, 127,    \* A
     127, 72, 120,   \* b
     127, 65, 99,    \* C
     120, 72, 127,   \* d
     127, 73, 65,    \* E
     127, 9, 1,      \* F
     0, 96, 0,       \* .
     0, 54, 0,       \* :
     8, 8, 8,        \* -
     0, 0, 0 >>      \* blank

-----------------------------------------------------------------------------
(* OLED functions of the ATtiny10 program *)

RECURSIVE T10_OLED_init_for(_)
T10_OLED_init_for(i) ==
  IF i < T10_OLED_INIT_LEN
    THEN << <<"T10_I2C_write", pgm_read_byte(T10_OLED_INIT_CMD, i)>> >>
         \o T10_OLED_init_for(U8(i + 1))
    ELSE << >>

T10_OLED_init ==
  << <<"T10_I2C_init">>, <<"T10_I2C_start", T10_OLED_ADDR>>,
     <<"T10_I2C_write", T10_OLED_CMD_MODE>> >>
  \o T10_OLED_init_for(0)
  \o << <<"T10_I2C_stop">> >>

\* the stretch without its two masks
T10_OLED_stretch_nomask(b) ==
  LET b1 == U8(BitOr(Shl(b, 3), b))
      b2 == U8(BitOr(b1, Shl(b1, 1)))
      b3 == U8(BitOr(b2, Shl(b2, 2)))
  IN  b3

T10_OLED_stretch(b) ==
  LET b1 == U8(BitOr(Shl(BitAnd(b, 2), 3), BitAnd(b, 1)))
      b2 == U8(BitOr(b1, Shl(b1, 1)))
      b3 == U8(BitOr(b2, Shl(b2, 2)))
  IN  b3

\* the spacing loop one pass short
RECURSIVE T10_OLED_printD_space_short(_)
T10_OLED_printD_space_short(i) ==
  IF i > 1
    THEN << <<"T10_I2C_write", 0>> >> \o T10_OLED_printD_space_short(U8(i + 255))
    ELSE << >>

\* for(i=8; i; i--) I2C_write(0x00);
RECURSIVE T10_OLED_printD_space(_)
T10_OLED_printD_space(i) ==
  IF i # 0 THEN << <<"T10_I2C_write", 0>> >> \o T10_OLED_printD_space(U8(i + 255)) ELSE << >>

\* the stretch loop moving on by one bit per pass
RECURSIVE T10_OLED_printD_stretch_by1(_, _, _)
T10_OLED_printD_stretch_by1(j, b, sb) ==
  IF j < 4
    THEN T10_OLED_printD_stretch_by1(U8(j + 1), Shr(b, 1),
                                     [sb EXCEPT ![j + 1] = T10_OLED_stretch(b)])
    ELSE sb

\* for(j=0; j<4; j++, b >>= 2) sb[j] = OLED_stretch(b);
RECURSIVE T10_OLED_printD_stretch(_, _, _)
T10_OLED_printD_stretch(j, b, sb) ==
  IF j < 4
    THEN T10_OLED_printD_stretch(U8(j + 1), Shr(b, 2),
                                 [sb EXCEPT ![j + 1] = T10_OLED_stretch(b)])
    ELSE sb

\* for(k=0; k<4; k++) I2C_write(sb[k]);
RECURSIVE T10_OLED_printD_column(_, _)
T10_OLED_printD_column(k, sb) ==
  IF k < 4
    THEN << <<"T10_I2C_write", sb[k + 1]>> >> \o T10_OLED_printD_column(U8(k + 1), sb)
    ELSE << >>

\* while(j--) { ... }
RECURSIVE T10_OLED_printD_while(_, _)
T10_OLED_printD_while(j, sb) ==
  IF j # 0
    THEN T10_OLED_printD_column(0, sb) \o T10_OLED_printD_while(U8(j + 255), sb)
    ELSE << >>

\* the glyph loop without the wider middle column (j stays 4)
RECURSIVE T10_OLED_printD_for_narrow(_, _)
T10_OLED_printD_for_narrow(i, ch) ==
  IF i # 0
    THEN LET b  == pgm_read_byte(T10_OLED_FONT, ch)
             sb == T10_OLED_printD_stretch(0, b, <<0, 0, 0, 0>>)
         IN  T10_OLED_printD_while(4, sb)
             \o T10_OLED_printD_for_narrow(U8(i + 255), U8(ch + 1))
    ELSE << >>

\* for(i=3; i; i--) { ... }; sb holds no defined value before the stretch loop
\* has assigned all four of its elements
RECURSIVE T10_OLED_printD_for(_, _)
T10_OLED_printD_for(i, ch) ==
  IF i # 0
    THEN LET b  == pgm_read_byte(T10_OLED_FONT, ch)
             sb == T10_OLED_printD_stretch(0, b, <<0, 0, 0, 0>>)
             j  == IF i = 2 THEN 6 ELSE 4
         IN  T10_OLED_printD_while(j, sb) \o T10_OLED_printD_for(U8(i + 255), U8(ch + 1))
    ELSE << >>

\* the position computed as four bytes per symbol
T10_OLED_printD_index_x4(ch) == U8(Shl(ch, 2))

\* ch += ch << 1;
T10_OLED_printD_index(ch) == U8(ch + Shl(ch, 1))

\* the indices of OLED_FONT read by the loop for(i=3; i; i--) through
\* pgm_read_byte(&OLED_FONT[ch++]), in the order of the reads
RECURSIVE T10_OLED_printD_reads(_, _)
T10_OLED_printD_reads(i, ch) ==
  IF i # 0 THEN <<ch>> \o T10_OLED_printD_reads(U8(i + 255), U8(ch + 1)) ELSE << >>

T10_OLED_printD(ch) ==
  LET ch1 == T10_OLED_printD_index(ch)
  IN  T10_OLED_printD_space(8) \o T10_OLED_printD_for(3, ch1)

RECURSIVE T10_OLED_printB_for(_, _)
T10_OLED_printB_for(i, buf) ==
  IF i < 8
    THEN T10_OLED_printD(buf[i + 1]) \o T10_OLED_printB_for(U8(i + 1), buf)
    ELSE << >>

T10_OLED_printB(buf) ==
  << <<"T10_I2C_start", T10_OLED_ADDR>>, <<"T10_I2C_write", T10_OLED_DAT_MODE>> >>
  \o T10_OLED_printB_for(0, buf)
  \o << <<"T10_I2C_stop">> >>

-----------------------------------------------------------------------------
(* The MCU around the engine: calls, pins, and the wires as seen from outside *)

\* the caller's call c (function name, argument) sets up the callee's frame
Enter(e, c) ==
  LET f == [e EXCEPT !.fn = c[1], !.ops = << >>, !.ret = 0]
  IN  CASE c[1] = "I2C_init"      -> [f EXCEPT !.pc = 153]
        [] c[1] = "I2C_start"     -> [f EXCEPT !.pc = 159]
        [] c[1] = "I2C_stop"      -> [f EXCEPT !.pc = 165]
        [] c[1] = "I2C_write"     -> [f EXCEPT !.pc = 172, !.data = c[2]]
        [] c[1] = "I2C_read"      -> [f EXCEPT !.pc = 185, !.ack = c[2]]
        [] c[1] = "T10_I2C_init"  -> [f EXCEPT !.pc = 120]
        [] c[1] = "T10_I2C_start" -> [f EXCEPT !.pc = 141, !.addr = c[2]]
        [] c[1] = "T10_I2C_write" -> [f EXCEPT !.pc = 126, !.data = c[2]]
        [] c[1] = "T10_I2C_stop"  -> [f EXCEPT !.pc = 148]

\* one source line of whichever engine function is running
EngineStep(e) ==
  CASE e.fn = "I2C_init"      -> I2C_init(e)
    [] e.fn = "I2C_start"     -> I2C_start(e)
    [] e.fn = "I2C_stop"      -> I2C_stop(e)
    [] e.fn = "I2C_write"     -> I2C_write(e)
    [] e.fn = "I2C_read"      -> I2C_read(e)
    [] e.fn = "T10_I2C_init"  -> T10_I2C_init(e)
    [] e.fn = "T10_I2C_start" -> T10_I2C_start(e)
    [] e.fn = "T10_I2C_write" -> T10_I2C_write(e)
    [] e.fn = "T10_I2C_stop"  -> T10_I2C_stop(e)
    [] OTHER                  -> e

\* the level the MCU alone gives a line: an output pin drives its PORTB bit,
\* an input pin leaves the line to the pull-up
Level(e, pin) == IF Bit(e.DDRB, pin) = 1 THEN Bit(e.PORTB, pin) ELSE 1

\* what PINB may read on the two lines at any instant: a driven pin reads
\* what it drives, a released line reads HIGH unless the slave holds it LOW
PinSet(e) ==
  { p \in {0, 1, 4, 5} :
      \A pin \in {I2C_SDA, I2C_SCL} :
         Bit(e.DDRB, pin) = 1 => Bit(p, pin) = Bit(e.PORTB, pin) }

\* the registers and locals of the master, without the pin readings
Master(e) == [fn |-> e.fn, pc |-> e.pc, i |-> e.i, data |-> e.data, addr |-> e.addr,
              ack |-> e.ack, ret |-> e.ret,
              DDRB |-> e.DDRB, PORTB |-> e.PORTB, ops |-> e.ops]

\* the master while PINB reads p
WithPins(e, p) == [fn |-> e.fn, pc |-> e.pc, i |-> e.i, data |-> e.data, addr |-> e.addr,
                   ack |-> e.ack, ret |-> e.ret,
                   DDRB |-> e.DDRB, PORTB |-> e.PORTB, ops |-> e.ops, PINB |-> p]

\* value of 8 bits received most significant first
RECURSIVE ByteOf(_)
ByteOf(bits) ==
  IF bits = << >> THEN 0
  ELSE 2 * ByteOf(SubSeq(bits, 1, Len(bits) - 1)) + bits[Len(bits)]

\* bytes of display memory of the 128 columns by 4 pages that both programs
\* configure (multiplex 0x1F, pages 0..3)
FrameBytes == 128 * 4

\* the receiver's count of data bytes since the last command transaction,
\* modulo the display memory, once the transaction so far is bytes
Counted(n, bytes) ==
  IF Len(bytes) = 2 /\ bytes[2] = 0 THEN 0
  ELSE IF Len(bytes) > 2 /\ bytes[2] = 64 THEN (n + 1) % FrameBytes
  ELSE n

\* A receiver on the wires, between the MCU state e and its successor e1:
\*   START  SDA falls while SCL stays HIGH;  STOP  SDA rises while SCL stays HIGH;
\*   a bit is sampled when SCL rises and counts once SCL has fallen again;
\*   the ninth bit of a byte is the acknowledge slot.
Observe(m, e, e1) ==
  LET sda0 == Level(e, I2C_SDA)
      sda1 == Level(e1, I2C_SDA)
      scl0 == Level(e, I2C_SCL)
      scl1 == Level(e1, I2C_SCL)
  IN  CASE scl0 = 1 /\ scl1 = 1 /\ sda0 = 1 /\ sda1 = 0 ->
             [m EXCEPT !.open = TRUE, !.pend = -1, !.bits = << >>, !.bytes = << >>,
                       !.pulses = 0, !.ev = Append(@, "START"),
                       !.restart = @ \/ m.open]
        [] scl0 = 1 /\ scl1 = 1 /\ sda0 = 0 /\ sda1 = 1 ->
             [m EXCEPT !.open = FALSE, !.pend = -1, !.ev = Append(@, "STOP"),
                       !.log = Append(@, m.bytes),
                       !.orphan = @ \/ ~m.open]
        [] scl0 = 0 /\ scl1 = 1 ->
             [m EXCEPT !.pend = sda1]
        [] scl0 = 1 /\ scl1 = 0 /\ m.pend # -1 ->
             IF Len(m.bits) = 8
               THEN [m EXCEPT !.pend = -1, !.pulses = @ + 1, !.bits = << >>,
                              !.bytes = Append(@, ByteOf(m.bits)),
                              !.count = Counted(@, Append(m.bytes, ByteOf(m.bits)))]
               ELSE [m EXCEPT !.pend = -1, !.pulses = @ + 1,
                              !.bits = Append(@, m.pend)]
        [] OTHER -> m

\* the observer starts a new observation window
Window(m) == [m EXCEPT !.ev = << >>, !.log = << >>]

-----------------------------------------------------------------------------
(* Initial values *)

\* no call yet; the registers read 0 after reset
Eng0 == [fn |-> "idle", pc |-> 0, i |-> 0, data |-> 0, addr |-> 0, ack |-> 0, ret |-> 0,
         DDRB |-> 0, PORTB |-> 0, ops |-> << >>]

Mon0 == [open |-> FALSE, pend |-> -1, bits |-> << >>, bytes |-> << >>, pulses |-> 0,
         count |-> 0,
         ev |-> << >>, log |-> << >>, restart |-> FALSE, orphan |-> FALSE]

\* uint8_t buffer[8] = {0, 0, 17, 0, 0, 16, 0, 0};
Buffer0 == <<0, 0, 17, 0, 0, 16, 0, 0>>

Out0 == [done |-> FALSE, val |-> 0]

-----------------------------------------------------------------------------
(* Steps of the engine and of the two main programs *)

\* the engine function that is running executes one source line, while the
\* pins read whatever the lines carry
Run ==
  /\ eng.fn # "idle"
  /\ \E p \in PinSet(eng) :
       \E e1 \in {Master(EngineStep(WithPins(eng, p)))} :
         /\ eng' = e1
         /\ mon' = Observe(mon, eng, e1)
  /\ UNCHANGED <<prog, eng2, calls, api, mainvars, job, out, diverged>>

\* the running OLED function or main statement makes its next engine call
Dispatch ==
  /\ eng.fn = "idle"
  /\ calls # << >>
  /\ eng' = Enter(eng, Head(calls))
  /\ calls' = Tail(calls)
  /\ UNCHANGED <<prog, eng2, mon, api, mainvars, job, out, diverged>>

\* a statement of main that calls f, which makes the engine calls cs; the
\* line that follows and the value of main's loop variable
Stmt(f, cs, next, i) ==
  /\ api' = <<f>>
  /\ calls' = cs
  /\ main_pc' = next
  /\ main_i' = i

\* a statement of main that is itself the engine call c
Inline(c, next, i) == Stmt(c, <<c>>, next, i)

\* a loop test of main
Branch(next, i) ==
  /\ api' = << >>
  /\ calls' = << >>
  /\ main_pc' = next
  /\ main_i' = i

\* main of the ATtiny13 program, lines 252-292.  The for loops of lines 270
\* and 275 initialise i on the way in; line 270 is the test, the body and the
\* increment of its loop, line 275 the test of its loop and line 281 the last
\* line of its body with the increment.  _delay_ms changes no state.
main ==
  /\ prog = "t13"
  /\ eng.fn = "idle"
  /\ calls = << >>
  /\ mon' = Window(mon)
  /\ CASE main_pc = 253 -> Stmt(<<"OLED_init">>, OLED_init, 254, main_i)
       [] main_pc = 254 -> Stmt(<<"OLED_clear">>, OLED_clear, 258, main_i)
       [] main_pc = 258 -> Stmt(<<"OLED_cursor", 20, 0>>, OLED_cursor(20, 0), 259, main_i)
       [] main_pc = 259 -> Stmt(<<"OLED_printP", Message1>>, OLED_printP(Message1), 261, main_i)
       [] main_pc = 261 -> Stmt(<<"OLED_cursor", 5, 2>>, OLED_cursor(5, 2), 262, main_i)
       [] main_pc = 262 -> Stmt(<<"OLED_printP", Message2>>, OLED_printP(Message2), 266, main_i)
       [] main_pc = 266 -> Stmt(<<"OLED_cursor", 0, 0>>, OLED_cursor(0, 0), 267, main_i)
       [] main_pc = 267 -> Inline(<<"I2C_start">>, 268, main_i)
       [] main_pc = 268 -> Inline(<<"I2C_write", OLED_ADDR>>, 269, main_i)
       [] main_pc = 269 -> Inline(<<"I2C_write", 64>>, 270, 32)
       [] main_pc = 270 ->
            IF main_i < 64 + 32
              THEN Stmt(<<"OLED_printC", main_i>>, OLED_printC(main_i), 270, U8(main_i + 1))
              ELSE Branch(271, 0)
       [] main_pc = 271 -> Inline(<<"I2C_stop">>, 275, 0)
       [] main_pc = 275 -> IF main_i < 32 THEN Branch(276, main_i) ELSE Branch(284, 0)
       [] main_pc = 276 -> Inline(<<"I2C_start">>, 277, main_i)
       [] main_pc = 277 -> Inline(<<"I2C_write", OLED_ADDR>>, 278, main_i)
       [] main_pc = 278 -> Inline(<<"I2C_write", 0>>, 279, main_i)
       [] main_pc = 279 -> Inline(<<"I2C_write", 211>>, 280, main_i)
       [] main_pc = 280 -> Inline(<<"I2C_write", main_i>>, 281, main_i)
       [] main_pc = 281 -> Inline(<<"I2C_stop">>, 275, U8(main_i + 1))
       [] main_pc = 284 -> Stmt(<<"OLED_clear">>, OLED_clear, 285, main_i)
       [] main_pc = 285 -> Inline(<<"I2C_start">>, 286, main_i)
       [] main_pc = 286 -> Inline(<<"I2C_write", OLED_ADDR>>, 287, main_i)
       [] main_pc = 287 -> Inline(<<"I2C_write", 0>>, 288, main_i)
       [] main_pc = 288 -> Inline(<<"I2C_write", 211>>, 289, main_i)
       [] main_pc = 289 -> Inline(<<"I2C_write", 0>>, 290, main_i)
       [] main_pc = 290 -> Inline(<<"I2C_stop">>, 258, main_i)
  /\ UNCHANGED <<prog, eng, eng2, buffer, counter_a, counter_b, counter_c,
                 refreshes, job, out, diverged>>

\* the carry into counter_c tested outside the test of counter_a
T10_main_count_loose(a, b, c) ==
  LET a1 == U8(a + 1)
      b1 == IF a1 = 0 THEN U8(b + 1) ELSE b
      c1 == IF b1 = 0 THEN U8(c + 1) ELSE c
  IN  <<a1, b1, c1>>

\* lines 205-209: counter_a++; if(!counter_a) { counter_b++;
\* if(!counter_b) counter_c++; }; the new values of the three counters
T10_main_count(a, b, c) ==
  LET a1 == U8(a + 1)
      b1 == IF a1 = 0 THEN U8(b + 1) ELSE b
      c1 == IF a1 = 0 /\ b1 = 0 THEN U8(c + 1) ELSE c
  IN  <<a1, b1, c1>>

\* the buffer refilled with five bits of each counter in the low digits
T10_main_buffer_wide(buf, a, b, c) ==
  [n \in 1..8 |->
     CASE n = 8 -> BitAnd(a, 31)
       [] n = 7 -> Shr(a, 4)
       [] n = 5 -> BitAnd(b, 31)
       [] n = 4 -> Shr(b, 4)
       [] n = 2 -> BitAnd(c, 31)
       [] n = 1 -> Shr(c, 4)
       [] n = 3 -> IF BitAnd(a, 32) # 0 THEN 17 ELSE 19
       [] OTHER -> buf[n]]

\* the buffer refilled with the colon following bit 4 of counter_a
T10_main_buffer_bit4(buf, a, b, c) ==
  [n \in 1..8 |->
     CASE n = 8 -> BitAnd(a, 15)
       [] n = 7 -> Shr(a, 4)
       [] n = 5 -> BitAnd(b, 15)
       [] n = 4 -> Shr(b, 4)
       [] n = 2 -> BitAnd(c, 15)
       [] n = 1 -> Shr(c, 4)
       [] n = 3 -> IF BitAnd(a, 16) # 0 THEN 17 ELSE 19
       [] OTHER -> buf[n]]

\* the buffer refilled with the two digits of counter_a exchanged
T10_main_buffer_swapped(buf, a, b, c) ==
  [n \in 1..8 |->
     CASE n = 8 -> Shr(a, 4)
       [] n = 7 -> BitAnd(a, 15)
       [] n = 5 -> BitAnd(b, 15)
       [] n = 4 -> Shr(b, 4)
       [] n = 2 -> BitAnd(c, 15)
       [] n = 1 -> Shr(c, 4)
       [] n = 3 -> IF BitAnd(a, 32) # 0 THEN 17 ELSE 19
       [] OTHER -> buf[n]]

\* lines 210-217: the buffer buf refilled from the counters a, b, c
T10_main_buffer(buf, a, b, c) ==
  [n \in 1..8 |->
     CASE n = 8 -> BitAnd(a, 15)
       [] n = 7 -> Shr(a, 4)
       [] n = 5 -> BitAnd(b, 15)
       [] n = 4 -> Shr(b, 4)
       [] n = 2 -> BitAnd(c, 15)
       [] n = 1 -> Shr(c, 4)
       [] n = 3 -> IF BitAnd(a, 32) # 0 THEN 17 ELSE 19
       [] OTHER -> buf[n]]

\* lines 205-217 of main, one pass through the rest of the loop body
T10_main_update ==
  LET abc == T10_main_count(counter_a, counter_b, counter_c)
  IN  /\ main_pc = 205
      /\ counter_a' = abc[1]
      /\ counter_b' = abc[2]
      /\ counter_c' = abc[3]
      /\ buffer' = T10_main_buffer(buffer, abc[1], abc[2], abc[3])
      /\ refreshes' = refreshes + 1
      /\ Branch(204, main_i)

\* main of the ATtiny10 program, lines 195-219: line 201, line 204, and
\* lines 205-217 (the counter and buffer update) as one step.  The clock
\* prescaler writes of lines 199-200 touch nothing modelled here.
T10_main ==
  /\ prog = "t10"
  /\ eng.fn = "idle"
  /\ calls = << >>
  /\ mon' = Window(mon)
  /\ CASE main_pc = 201 ->
            /\ Stmt(<<"T10_OLED_init">>, T10_OLED_init, 204, main_i)
            /\ UNCHANGED <<buffer, counter_a, counter_b, counter_c, refreshes>>
       [] main_pc = 204 ->
            /\ refreshes < MaxRefresh
            /\ Stmt(<<"T10_OLED_printB", buffer>>, T10_OLED_printB(buffer), 205, main_i)
            /\ UNCHANGED <<buffer, counter_a, counter_b, counter_c, refreshes>>
       [] main_pc = 205 -> T10_main_update
  /\ UNCHANGED <<prog, eng, eng2, job, out, diverged>>

Init ==
  /\ prog \in {"t13", "t10"}
  /\ eng = Eng0
  /\ eng2 = Eng0
  /\ mon = Mon0
  /\ calls = << >>
  /\ api = << >>
  /\ main_pc = IF prog = "t13" THEN 253 ELSE 201
  /\ main_i = 0
  /\ buffer = Buffer0
  /\ counter_a = 0
  /\ counter_b = 0
  /\ counter_c = 0
  /\ refreshes = 0
  /\ job = << >>
  /\ out = Out0
  /\ diverged = FALSE

Next ==
  \/ main
  \/ T10_main
  \/ Dispatch
  \/ Run

Spec == Init /\ [][Next]_vars

\* Both programs run on a single core without interrupts, sleep or halt: as
\* long as an instruction is left to execute, the core executes it.
SpecLive == Init /\ [][Next]_vars /\ WF_vars(Next)

-----------------------------------------------------------------------------
(* The engine on its own, under any caller that keeps the calling order:     *)
(* I2C_init first, then transactions start, write ..., stop                  *)

\* the port registers as found by I2C_init: as after reset, or with PB0..PB2
\* left as outputs driven HIGH
RegInit == { <<0, 0>>, <<7, 7>> }

\* the calls the caller may make next
Allowed ==
  IF api = << >> THEN
    IF prog = "t13" THEN { <<"I2C_init">> } ELSE { <<"T10_I2C_init">> }
  ELSE IF ~mon.open THEN
    IF prog = "t13" THEN { <<"I2C_start">> }
    ELSE { <<"T10_I2C_start", addr>> : addr \in 0..255 }
  ELSE
    IF prog = "t13"
      THEN { <<"I2C_write", b>> : b \in 0..255 } \cup { <<"I2C_stop">> }
      ELSE { <<"T10_I2C_write", b>> : b \in 0..255 } \cup { <<"T10_I2C_stop">> }

\* values of ack with which the caller reads
AckValues == {0, 1, 2, 255}

\* the reads the caller may make next: within a transaction of the ATtiny13
\* program, whose engine alone has I2C_read
AllowedRead ==
  IF prog = "t13" /\ api # << >> /\ mon.open
    THEN { <<"I2C_read", ack>> : ack \in AckValues }
    ELSE { }

IsStop(c) == c[1] \in {"I2C_stop", "T10_I2C_stop"}

\* the observer's capture buffer is emptied with every call but a stop, so
\* that what is seen at the end of a stop reaches back over the call before it
Capture(m, c) ==
  IF IsStop(c) THEN m ELSE [Window(m) EXCEPT !.bytes = << >>, !.pulses = 0]

CallLog(c) == IF IsStop(c) THEN Append(api, c) ELSE <<c>>

Call ==
  /\ eng.fn = "idle"
  /\ \E c \in Allowed \cup AllowedRead :
       /\ eng' = Enter(eng, c)
       /\ mon' = Capture(mon, c)
       /\ api' = CallLog(c)
  /\ UNCHANGED <<prog, eng2, calls, mainvars, job, out, diverged>>

InitEngine ==
  /\ prog \in {"t13", "t10"}
  /\ \E r \in RegInit : eng = [Eng0 EXCEPT !.DDRB = r[1], !.PORTB = r[2]]
  /\ eng2 = Eng0
  /\ mon = Mon0
  /\ calls = << >>
  /\ api = << >>
  /\ main_pc = 0
  /\ main_i = 0
  /\ buffer = Buffer0
  /\ counter_a = 0
  /\ counter_b = 0
  /\ counter_c = 0
  /\ refreshes = 0
  /\ job = << >>
  /\ out = Out0
  /\ diverged = FALSE

NextEngine == Call \/ Run

SpecEngine == InitEngine /\ [][NextEngine]_vars

-----------------------------------------------------------------------------
(* Two runs of the same master under the same caller, each with a slave of   *)
(* its own: the runs differ only in what the pins read                       *)

BothCall ==
  /\ eng.fn = "idle"
  /\ eng2.fn = "idle"
  /\ \E c \in Allowed :
       /\ eng' = Enter(eng, c)
       /\ eng2' = Enter(eng2, c)
       /\ mon' = Capture(mon, c)
       /\ api' = CallLog(c)
  /\ diverged' = FALSE
  /\ UNCHANGED <<prog, calls, mainvars, job, out>>

BothRun ==
  /\ eng.fn # "idle" \/ eng2.fn # "idle"
  /\ \E p \in PinSet(eng), q \in PinSet(eng2) :
       LET e1 == Master(EngineStep(WithPins(eng, p)))
           f1 == Master(EngineStep(WithPins(eng2, q)))
       IN  /\ eng' = e1
           /\ eng2' = f1
           /\ mon' = Observe(mon, eng, e1)
           /\ diverged' = (diverged \/ p # q)
  /\ UNCHANGED <<prog, calls, api, mainvars, job, out>>

InitTwoRuns ==
  /\ prog \in {"t13", "t10"}
  /\ eng = Eng0
  /\ eng2 = Eng0
  /\ mon = Mon0
  /\ calls = << >>
  /\ api = << >>
  /\ main_pc = 0
  /\ main_i = 0
  /\ buffer = Buffer0
  /\ counter_a = 0
  /\ counter_b = 0
  /\ counter_c = 0
  /\ refreshes = 0
  /\ job = << >>
  /\ out = Out0
  /\ diverged = FALSE

NextTwoRuns == BothCall \/ BothRun

SpecTwoRuns == InitTwoRuns /\ [][NextTwoRuns]_vars

-----------------------------------------------------------------------------
(* The OLED functions applied to every argument of a bounded set *)

\* the functions and the arguments they are applied to; the strings are
\* zero-terminated, of at most MaxStrLen characters with codes 32..95, and
\* the array sb of the stretch loop holds any value before the loop
Job(j) ==
  \/ \E b \in 0..255 : j = <<"T10_OLED_stretch", b>>
  \/ \E v \in 0..19 : j = <<"T10_OLED_printD", v>>
  \/ \E n \in 0..MaxStrLen : \E str \in [1..n -> 32..95] :
       j = <<"OLED_printP", Append(str, 0)>>
  \/ \E xpos \in 0..255, ypos \in 0..255 : j = <<"OLED_cursor", xpos, ypos>>
  \/ \E b \in 0..255 : \E sb \in {<<0, 0, 0, 0>>, <<255, 255, 255, 255>>} :
       j = <<"T10_OLED_printD_stretch", b, sb>>

Apply(f, val) ==
  /\ job[1] = f
  /\ ~out.done
  /\ out' = [done |-> TRUE, val |-> val]
  /\ UNCHANGED <<prog, eng, eng2, mon, calls, api, mainvars, job, diverged>>

Apply_T10_OLED_stretch == Apply("T10_OLED_stretch", T10_OLED_stretch(job[2]))

Apply_T10_OLED_printD == Apply("T10_OLED_printD", T10_OLED_printD(job[2]))

Apply_OLED_printP == Apply("OLED_printP", OLED_printP(job[2]))

Apply_OLED_cursor == Apply("OLED_cursor", OLED_cursor(job[2], job[3]))

\* the stretch loop of OLED_printD on the byte job[2]; job[3] is what the
\* uninitialised array sb holds before the loop
Apply_T10_OLED_printD_stretch ==
  Apply("T10_OLED_printD_stretch", T10_OLED_printD_stretch(0, job[2], job[3]))

InitPure ==
  /\ Job(job)
  /\ out = Out0
  /\ diverged = FALSE
  /\ prog = IF job[1] \in {"OLED_printP", "OLED_cursor"} THEN "t13" ELSE "t10"
  /\ eng = Eng0
  /\ eng2 = Eng0
  /\ mon = Mon0
  /\ calls = << >>
  /\ api = << >>
  /\ main_pc = 0
  /\ main_i = 0
  /\ buffer = Buffer0
  /\ counter_a = 0
  /\ counter_b = 0
  /\ counter_c = 0
  /\ refreshes = 0

NextPure ==
  \/ Apply_T10_OLED_stretch
  \/ Apply_T10_OLED_printD
  \/ Apply_OLED_printP
  \/ Apply_OLED_cursor
  \/ Apply_T10_OLED_printD_stretch

SpecPure == InitPure /\ [][NextPure]_vars

-----------------------------------------------------------------------------
(* The main loop of the ATtiny10 program on its own: OLED_printB returns and  *)
(* has touched none of main's variables; the loop is followed from its start *)
(* and from shortly before the carries out of counter_a and counter_b        *)

\* numbers of completed iterations from which the loop is followed
CountFrom == {0, 2^16 - MaxIter, 2^24 - MaxIter}

\* line 204, OLED_printB(buffer), has returned
T10_main_refreshed ==
  /\ prog = "t10"
  /\ main_pc = 204
  /\ \A n \in CountFrom : refreshes # n + 2 * MaxIter
  /\ Stmt(<<"T10_OLED_printB", buffer>>, << >>, 205, main_i)
  /\ UNCHANGED <<prog, eng, eng2, mon, buffer, counter_a, counter_b, counter_c,
                 refreshes, job, out, diverged>>

\* lines 205-217
T10_main_counted ==
  /\ prog = "t10"
  /\ T10_main_update
  /\ UNCHANGED <<prog, eng, eng2, mon, job, out, diverged>>

InitCounter ==
  /\ prog = "t10"
  /\ refreshes \in CountFrom
  /\ counter_a = refreshes % 256
  /\ counter_b = (refreshes \div 256) % 256
  /\ counter_c = (refreshes \div 65536) % 256
  /\ buffer = IF refreshes = 0 THEN Buffer0
              ELSE T10_main_buffer(Buffer0, counter_a, counter_b, counter_c)
  /\ main_pc = 204
  /\ main_i = 0
  /\ eng = Eng0
  /\ eng2 = Eng0
  /\ mon = Mon0
  /\ calls = << >>
  /\ api = << >>
  /\ job = << >>
  /\ out = Out0
  /\ diverged = FALSE

NextCounter == T10_main_refreshed \/ T10_main_counted

SpecCounter == InitCounter /\ [][NextCounter]_vars

-----------------------------------------------------------------------------
(* Properties of the I2C engine, checked under SpecEngine and SpecTwoRuns *)

\* the line operations of one data bit whose value is bit
BitOps(bit) ==
  <<"SDA_LOW">> \o (IF bit = 1 THEN <<"SDA_HIGH">> ELSE << >>) \o <<"SCL_HIGH", "SCL_LOW">>

WriteOps(b) ==
  BitOps(Bit(b, 7)) \o BitOps(Bit(b, 6)) \o BitOps(Bit(b, 5)) \o BitOps(Bit(b, 4))
  \o BitOps(Bit(b, 3)) \o BitOps(Bit(b, 2)) \o BitOps(Bit(b, 1)) \o BitOps(Bit(b, 0))
  \o <<"SDA_HIGH", "SCL_HIGH", "SCL_LOW">>

\* the call c, made by the caller on its own, has returned
Returned(c) == eng.fn = "idle" /\ api = <<c>>

BusIdle(e) == Level(e, I2C_SDA) = 1 /\ Level(e, I2C_SCL) = 1

\* C1: for every byte b, I2C_write(b) of either program, entered with SCL
\* driven LOW, performs exactly: eight times (SDA LOW, SDA released only if
\* the top bit is 1, SCL released, SCL LOW), then (SDA released, SCL released,
\* SCL LOW); the levels at the eight first SCL releases are the bits of b,
\* most significant first, and there are exactly 9 clock pulses.
WriteShiftsOutMsbFirst ==
  (eng.fn = "idle" /\ Len(api) = 1 /\ api[1][1] \in {"I2C_write", "T10_I2C_write"}) =>
    LET b == api[1][2]
    IN  /\ b \in 0..255
        /\ eng.ops = WriteOps(b)
        /\ mon.pulses = 9
        /\ mon.bytes = <<b>>
        /\ mon.bits = << >>
        /\ Level(eng, I2C_SCL) = 0

WriteShiftsOutMsbFirstWitness ==
  /\ Returned(<<"I2C_write", 165>>)
  /\ mon.bytes = <<165>>
  /\ mon.pulses = 9
  /\ Len(eng.ops) = 31

\* the start and the stop that followed it at once have both returned
StartThenStop(start) ==
  /\ eng.fn = "idle"
  /\ Len(api) = 2
  /\ api[1] = start
  /\ IsStop(api[2])

\* C2 as stated: on an idle bus, I2C_start followed at once by I2C_stop gives
\* a valid START and then a valid STOP with no clock pulse and no byte between
\* them, and leaves the bus idle, in each of the two programs.
StartStopSendsNothing ==
  (Len(api) = 2 /\ api[1][1] \in {"I2C_start", "T10_I2C_start"} /\ StartThenStop(api[1])) =>
    /\ mon.ev = <<"START", "STOP">>
    /\ mon.pulses = 0
    /\ mon.bytes = << >>
    /\ mon.log = << << >> >>
    /\ BusIdle(eng)

\* C2, amended: on an idle bus, start followed at once by stop gives a valid
\* START and then a valid STOP and leaves the bus idle in both programs; in
\* the text program nothing is clocked between them, in the big-digit program
\* I2C_start(addr) itself clocks out the byte addr (9 pulses) between them.
StartStopFraming ==
  /\ StartThenStop(<<"I2C_start">>) =>
       /\ mon.ev = <<"START", "STOP">>
       /\ mon.pulses = 0
       /\ mon.log = << << >> >>
       /\ BusIdle(eng)
       /\ ~mon.open
  /\ (Len(api) = 2 /\ api[1][1] = "T10_I2C_start" /\ StartThenStop(api[1])) =>
       /\ mon.ev = <<"START", "STOP">>
       /\ mon.pulses = 9
       /\ mon.log = << <<api[1][2]>> >>
       /\ BusIdle(eng)
       /\ ~mon.open

StartStopFramingWitness ==
  /\ StartThenStop(<<"T10_I2C_start", 120>>)
  /\ mon.ev = <<"START", "STOP">>
  /\ mon.log = << <<120>> >>

\* I2C_init has returned
AfterInit == api # << >> /\ eng.fn \notin {"I2C_init", "T10_I2C_init"}

OtherPins(x) == BitAnd(x, BitNot(BitOr(Shl(1, I2C_SDA), Shl(1, I2C_SCL))))

\* C3: in every state after I2C_init the PORTB bits of SDA and SCL are 0, so
\* that a line is either driven LOW or released and never driven HIGH; and
\* every step of an engine operation leaves PORTB alone and changes DDRB in
\* the direction bits of the two lines only.
LinesNeverDrivenHigh ==
  /\ [](AfterInit =>
          /\ Bit(eng.PORTB, I2C_SDA) = 0
          /\ Bit(eng.PORTB, I2C_SCL) = 0
          /\ \A pin \in {I2C_SDA, I2C_SCL} :
               Bit(eng.DDRB, pin) = 1 => Level(eng, pin) = 0)
  /\ [][AfterInit =>
          /\ eng'.PORTB = eng.PORTB
          /\ OtherPins(eng'.DDRB) = OtherPins(eng.DDRB)]_vars

LinesNeverDrivenHighWitness ==
  /\ AfterInit
  /\ eng.fn = "I2C_write"
  /\ eng.pc = 176
  /\ eng.DDRB = 2
  /\ eng.PORTB = 2
  /\ Level(eng, I2C_SDA) = 1

\* C5: two runs under the same calls that differ only in what the slave does
\* on the lines go through the same master states and make the same line
\* operations, step for step: no operation of the write path reads a line,
\* retries or waits.
MasterIgnoresSlave == eng = eng2

MasterIgnoresSlaveWitness ==
  /\ diverged
  /\ eng = eng2
  /\ Returned(<<"I2C_write", 165>>)
  /\ mon.bytes = <<165>>

\* the line operations of one received bit on which the slave presents bit
SampleOps(bit) ==
  <<"SCL_HIGH", IF bit = 1 THEN "SDA_READ_1" ELSE "SDA_READ_0", "SCL_LOW">>

ReadOps(smp, ack) ==
  <<"SDA_HIGH">>
  \o SampleOps(smp[1]) \o SampleOps(smp[2]) \o SampleOps(smp[3]) \o SampleOps(smp[4])
  \o SampleOps(smp[5]) \o SampleOps(smp[6]) \o SampleOps(smp[7]) \o SampleOps(smp[8])
  \o (IF ack # 0 THEN <<"SDA_LOW">> ELSE << >>)
  \o <<"SCL_HIGH", "SCL_LOW", "SDA_HIGH">>

\* C13: for every ack and every 8 SDA levels presented by the slave,
\* I2C_read(ack) releases SDA, makes exactly 9 clock pulses, samples SDA once
\* in each of the first 8 HIGH phases and returns the byte whose bit 7-i is
\* the i-th sample; in the 9th pulse it drives SDA LOW exactly if ack is not
\* 0, and on return SDA is released and SCL driven LOW.
ReadAssemblesMsbFirst ==
  (eng.fn = "idle" /\ Len(api) = 1 /\ api[1][1] = "I2C_read") =>
    LET ack == api[1][2]
        smp == [k \in 1..8 |-> IF Len(eng.ops) >= 3 * k /\ eng.ops[3 * k] = "SDA_READ_1"
                                 THEN 1 ELSE 0]
    IN  /\ eng.ops = ReadOps(smp, ack)
        /\ eng.ret = 128 * smp[1] + 64 * smp[2] + 32 * smp[3] + 16 * smp[4]
                     + 8 * smp[5] + 4 * smp[6] + 2 * smp[7] + smp[8]
        /\ mon.pulses = 9
        /\ Level(eng, I2C_SDA) = 1
        /\ Level(eng, I2C_SCL) = 0
        /\ mon.open

ReadAssemblesMsbFirstWitness ==
  /\ Returned(<<"I2C_read", 2>>)
  /\ eng.ret = 165
  /\ Len(eng.ops) = 29
  /\ eng.ops[26] = "SDA_LOW"

-----------------------------------------------------------------------------
(* Properties of the two programs, checked under Spec *)

\* C4: in every execution of either main, I2C_start is entered only while no
\* transaction is open, I2C_stop and I2C_write only while one is open; no
\* START condition falls inside an open transaction and no STOP condition
\* outside one, so that STARTs and STOPs alternate, beginning with a START.
StartStopAlternate ==
  /\ (eng.fn = "I2C_start" /\ eng.pc = 159) => ~mon.open
  /\ (eng.fn = "T10_I2C_start" /\ eng.pc = 141) => ~mon.open
  /\ (eng.fn = "I2C_stop" /\ eng.pc = 165) => mon.open
  /\ (eng.fn = "T10_I2C_stop" /\ eng.pc = 148) => mon.open
  /\ (eng.fn = "I2C_write" /\ eng.pc = 172) => mon.open
  /\ (eng.fn = "T10_I2C_write" /\ eng.pc = 126) => mon.open
  /\ ~mon.restart
  /\ ~mon.orphan
  /\ \A k \in 1..Len(mon.ev) - 1 : mon.ev[k] # mon.ev[k + 1]
  /\ mon.ev # << >> => (mon.open <=> mon.ev[Len(mon.ev)] = "START")

StartStopAlternateWitness ==
  /\ prog = "t13"
  /\ api = << <<"OLED_clear">> >>
  /\ eng.fn = "I2C_start"
  /\ eng.pc = 159
  /\ mon.ev = <<"START", "STOP">>
  /\ ~mon.open

\* C6: every transaction of either program carries 0x78 as its first byte and
\* 0x00 or 0x40 as its second; none is closed before both have been sent.
AddressThenMode ==
  /\ Len(mon.bytes) >= 1 => mon.bytes[1] = 120
  /\ Len(mon.bytes) >= 2 => mon.bytes[2] \in {0, 64}
  /\ \A k \in 1..Len(mon.log) :
       /\ Len(mon.log[k]) >= 2
       /\ mon.log[k][1] = 120
       /\ mon.log[k][1] % 2 = 0
       /\ mon.log[k][2] \in {0, 64}

AddressThenModeWitness ==
  /\ prog = "t10"
  /\ api = << <<"T10_OLED_printB", Buffer0>> >>
  /\ mon.open
  /\ Len(mon.bytes) = 66
  /\ mon.bytes[2] = 64
  /\ mon.log = << >>

\* C7: OLED_clear makes a complete command transaction with the bytes 0x78,
\* 0x00, 0x00, 0x10, 0xB0, then exactly one data transaction 0x78, 0x40
\* followed by exactly 512 bytes 0x00, and stops.
ClearSends512Zeros ==
  (prog = "t13" /\ api = << <<"OLED_clear">> >> /\ eng.fn = "idle" /\ calls = << >>) =>
    /\ mon.ev = <<"START", "STOP", "START", "STOP">>
    /\ ~mon.open
    /\ Len(mon.log) = 2
    /\ mon.log[1] = <<120, 0, 0, 16, 176>>
    /\ mon.log[2] = <<120, 64>> \o [k \in 1..512 |-> 0]
    /\ Len(mon.log[2]) = 514

ClearSends512ZerosWitness ==
  /\ prog = "t13"
  /\ main_pc = 258
  /\ api = << <<"OLED_clear">> >>
  /\ eng.fn = "idle"
  /\ calls = << >>
  /\ Len(mon.log) = 2
  /\ Len(mon.log[2]) = 514

\* the bytes of a sequence of engine calls that are all writes
DataOf(cs) == [k \in 1..Len(cs) |-> cs[k][2]]

\* the statement f of main has run to its end
Finished(f) == api = <<f>> /\ eng.fn = "idle" /\ calls = << >>

\* what OLED_init has sent once it is finished: one transaction of 0x78,
\* 0x00 and the first len bytes of table
InitSent(table, len) ==
  /\ mon.ev = <<"START", "STOP">>
  /\ ~mon.open
  /\ BusIdle(eng)
  /\ Len(mon.log) = 1
  /\ Len(mon.log[1]) = 2 + len
  /\ mon.log[1][1] = 120
  /\ mon.log[1][2] = 0
  /\ \A k \in 1..Len(table) :
       IF k <= len THEN mon.log[1][2 + k] = table[k] ELSE 2 + k > Len(mon.log[1])

\* C15: OLED_init of each program first calls I2C_init, which releases both
\* lines, and then makes exactly one transaction, in command mode: 0x78, 0x00
\* and the first OLED_INIT_LEN bytes of OLED_INIT_CMD in table order (18 in the
\* text program, 15 in the big-digit program), then STOP.  The bytes include
\* the multiplex, page range, addressing mode, COM pin, charge pump and
\* display-on commands; the flip bytes 0xA1, 0xC8 at the end of the table are
\* not reached by OLED_INIT_LEN and not sent.
InitSendsTable ==
  /\ (api \in {<< <<"OLED_init">> >>, << <<"T10_OLED_init">> >>}
        /\ eng.fn \in {"I2C_init", "T10_I2C_init"}) =>
       /\ mon.ev = << >>
       /\ mon.log = << >>
  /\ (api \in {<< <<"OLED_init">> >>, << <<"T10_OLED_init">> >>}
        /\ eng.fn = "idle" /\ mon.ev = << >>) =>
       BusIdle(eng)
  /\ Finished(<<"OLED_init">>) =>
       /\ Head(OLED_init) = <<"I2C_init">>
       /\ OLED_INIT_LEN = 18
       /\ InitSent(OLED_INIT_CMD, OLED_INIT_LEN)
       /\ SubSeq(mon.log[1], 3, Len(mon.log[1])) =
            <<168, 31, 34, 0, 3, 32, 0, 211, 0, 218, 2, 219, 64, 217, 241, 141, 20, 175>>
  /\ Finished(<<"T10_OLED_init">>) =>
       /\ Head(T10_OLED_init) = <<"T10_I2C_init">>
       /\ T10_OLED_INIT_LEN = 15
       /\ InitSent(T10_OLED_INIT_CMD, T10_OLED_INIT_LEN)
       /\ SubSeq(mon.log[1], 3, Len(mon.log[1])) =
            <<168, 31, 34, 0, 3, 32, 1, 218, 2, 141, 20, 175, 0, 16, 176>>

InitSendsTableWitness ==
  /\ prog = "t13"
  /\ Finished(<<"OLED_init">>)
  /\ Len(mon.log) = 1
  /\ Len(mon.log[1]) = 20
  /\ mon.log[1][20] = 175

\* the engine is at the first line of I2C_start
AtStart == \/ (eng.fn = "I2C_start" /\ eng.pc = 159)
           \/ (eng.fn = "T10_I2C_start" /\ eng.pc = 141)

\* line 159 (141) of I2C_start has run, line 160 (142) has not
InStart == \/ (eng.fn = "I2C_start" /\ eng.pc = 160)
           \/ (eng.fn = "T10_I2C_start" /\ eng.pc = 142)

\* C16: in every execution of either main both lines are released whenever
\* I2C_start is entered: they are released whenever no transaction is open
\* (after I2C_init, after every I2C_stop, and until the next I2C_start), so
\* that the first line of I2C_start makes SDA fall while SCL is HIGH, a START,
\* and its second line takes SCL LOW.
BusIdleAtStart ==
  /\ AtStart => (BusIdle(eng) /\ ~mon.open)
  /\ ~mon.open => BusIdle(eng)
  /\ InStart =>
       /\ Level(eng, I2C_SDA) = 0
       /\ Level(eng, I2C_SCL) = 1
       /\ mon.open
       /\ mon.ev # << >>
       /\ mon.ev[Len(mon.ev)] = "START"
  /\ (eng.fn = "T10_I2C_start" /\ eng.pc = 143) =>
       (Level(eng, I2C_SDA) = 0 /\ Level(eng, I2C_SCL) = 0)
  /\ Finished(<<"I2C_start">>) =>
       (Level(eng, I2C_SDA) = 0 /\ Level(eng, I2C_SCL) = 0 /\ mon.open)

BusIdleAtStartWitness ==
  /\ prog = "t13"
  /\ api = << <<"OLED_clear">> >>
  /\ InStart
  /\ mon.ev = <<"START", "STOP", "START">>
  /\ Level(eng, I2C_SDA) = 0
  /\ Level(eng, I2C_SCL) = 1

\* the step changes the level the master gives SDA
SdaChanges == Level(eng', I2C_SDA) # Level(eng, I2C_SDA)

\* C17: in every execution of either main the master changes SDA while SCL
\* is HIGH only in the first line of I2C_start (a fall) and in the last line
\* of I2C_stop (a rise); every other change of SDA happens while SCL is driven
\* LOW and stays LOW, so no START or STOP condition appears inside a
\* transaction; SCL is LOW on entry to every I2C_write and every I2C_stop.
SdaMovesOnlyWhileSclLow ==
  /\ []((eng.pc = 172 /\ eng.fn = "I2C_write") => Level(eng, I2C_SCL) = 0)
  /\ []((eng.pc = 126 /\ eng.fn = "T10_I2C_write") => Level(eng, I2C_SCL) = 0)
  /\ []((eng.pc = 165 /\ eng.fn = "I2C_stop") => Level(eng, I2C_SCL) = 0)
  /\ []((eng.pc = 148 /\ eng.fn = "T10_I2C_stop") => Level(eng, I2C_SCL) = 0)
  /\ [](~mon.restart /\ ~mon.orphan)
  /\ [][(SdaChanges /\ (Level(eng, I2C_SCL) = 1 \/ Level(eng', I2C_SCL) = 1)) =>
          \/ /\ (eng.fn = "I2C_start" /\ eng.pc = 159) \/ (eng.fn = "T10_I2C_start" /\ eng.pc = 141)
             /\ Level(eng', I2C_SDA) = 0
             /\ ~mon.open /\ mon'.open
          \/ /\ (eng.fn = "I2C_stop" /\ eng.pc = 167) \/ (eng.fn = "T10_I2C_stop" /\ eng.pc = 150)
             /\ Level(eng', I2C_SDA) = 1
             /\ mon.open /\ ~mon'.open]_vars

SdaMovesOnlyWhileSclLowWitness ==
  /\ prog = "t13"
  /\ eng.fn = "I2C_write"
  /\ eng.pc = 175
  /\ Level(eng, I2C_SDA) = 1
  /\ Level(eng, I2C_SCL) = 0
  /\ mon.open
  /\ Len(mon.bytes) = 2

\* the statement of main that is running is OLED_printB of the big-digit
\* program
InPrintB == prog = "t10" /\ Len(api) = 1 /\ api[1][1] = "T10_OLED_printB"

\* column and page of the controller's write pointer after n data bytes from
\* column 0, page 0, in vertical addressing mode over pages 0..3
Column(n) == (n \div 4) % 128

Page(n) == n % 4

\* OLED_printB is about to send symbol k of the buffer
SymbolNext(k) ==
  /\ InPrintB
  /\ eng.fn = "idle"
  /\ calls = T10_OLED_printB_for(k, api[1][2]) \o << <<"T10_I2C_stop">> >>

\* C18: every OLED_printB of the big-digit program sends exactly 512 data
\* bytes, 8 symbols of 64 bytes, in one transaction in data mode: one full
\* frame of 128 columns by 4 pages.  OLED_init sets pages 0..3, vertical
\* addressing and the home position, and no command is sent after it; so the
\* write pointer is at column 0, page 0 at the start of every refresh, and
\* symbol k of the buffer starts at column 16k.
PrintBFillsOneFrame ==
  /\ (prog = "t10" /\ Finished(<<"T10_OLED_init">>)) =>
       /\ SubSeq(mon.log[1], 5, 9) = <<34, 0, 3, 32, 1>>
       /\ SubSeq(mon.log[1], 15, 17) = <<0, 16, 176>>
       /\ mon.count = 0
  /\ InPrintB =>
       /\ AtStart => (mon.count = 0 /\ Column(mon.count) = 0 /\ Page(mon.count) = 0)
       /\ \A n \in 1..Len(mon.log) : mon.log[n][2] = 64
       /\ (mon.open /\ Len(mon.bytes) >= 2) =>
            /\ mon.bytes[2] = 64
            /\ mon.count = (Len(mon.bytes) - 2) % FrameBytes
       /\ \A k \in 0..7 :
            (eng.fn = "idle" /\ mon.open /\ Len(mon.bytes) = 2 + 64 * k) =>
              (SymbolNext(k) /\ Column(mon.count) = 16 * k /\ Page(mon.count) = 0)
       /\ Finished(api[1]) =>
            /\ mon.ev = <<"START", "STOP">>
            /\ Len(mon.log) = 1
            /\ Len(mon.log[1]) = 2 + 512
            /\ mon.log[1][1] = 120
            /\ mon.count = 0
            /\ \A k \in 0..7 :
                 SubSeq(mon.log[1], 3 + 64 * k, 66 + 64 * k)
                   = DataOf(T10_OLED_printD(api[1][2][k + 1]))

PrintBFillsOneFrameWitness ==
  /\ InPrintB
  /\ refreshes = 1
  /\ SymbolNext(1)
  /\ Column(mon.count) = 16
  /\ buffer[8] = 1

\* the characters passed to OLED_printC by the statement of main that is
\* running
CharsPrinted ==
  IF Len(api) # 1 THEN << >>
  ELSE IF api[1][1] = "OLED_printC" THEN <<api[1][2]>>
  ELSE IF api[1][1] = "OLED_printP"
    THEN OLED_printP_chars(api[1][2], 0, pgm_read_byte(api[1][2], 0))
  ELSE << >>

\* the offsets of OLED_font read for the character ch
CharReads(ch) == OLED_printC_reads(5, U16((ch - 32) * 5 + 65536))

\* the indices of OLED_FONT read for the symbol v
SymbolReads(v) == T10_OLED_printD_reads(3, T10_OLED_printD_index(v))

InRange(reads, lo, hi) == \A n \in 1..Len(reads) : reads[n] \in lo..hi

\* C19: every read of a font table in either main is within the table.  Text
\* program: every character passed to OLED_printC, from Message1, Message2
\* and the loop over 32..95, has a code in 32..95, and its five offsets lie in
\* 0..319, the 320 bytes of OLED_font.  Big-digit program: every entry of
\* the buffer is in 0..19 at all times (the initial buffer is, and the update
\* of lines 210-217 makes it so from any values of the counters), and the
\* three indices of every symbol printed lie in 0..59, the 60 bytes of
\* OLED_FONT.
FontReadsInTable ==
  /\ Len(OLED_font) = 320
  /\ Len(T10_OLED_FONT) = 60
  /\ prog = "t13" =>
       /\ InRange(CharsPrinted, 32, 95)
       /\ \A n \in 1..Len(CharsPrinted) :
            InRange(CharReads(CharsPrinted[n]), 0, Len(OLED_font) - 1)
       /\ main_pc = 270 => main_i \in 32..96
  /\ prog = "t10" =>
       /\ InRange(buffer, 0, 19)
       /\ \A n \in 1..8 : InRange(SymbolReads(buffer[n]), 0, Len(T10_OLED_FONT) - 1)
       /\ InPrintB =>
            /\ InRange(api[1][2], 0, 19)
            /\ \A n \in 1..8 :
                 InRange(SymbolReads(api[1][2][n]), 0, Len(T10_OLED_FONT) - 1)
       /\ (main_pc = 204 /\ eng.fn = "idle" /\ calls = << >>) =>
            \A v \in 0..255 : InRange(T10_main_buffer(buffer, v, v, v), 0, 19)

\* the second refresh prints the blank symbol 19, read from the last three
\* bytes of OLED_FONT
FontReadsInTableWitness ==
  /\ InPrintB
  /\ mon.open
  /\ api[1][2][3] = 19
  /\ SymbolReads(19) = <<57, 58, 59>>

-----------------------------------------------------------------------------
(* Properties of the OLED functions, checked under SpecPure *)

AllWrites(cs, f) == \A k \in 1..Len(cs) : cs[k][1] = f /\ Len(cs[k]) = 2

\* C8: for every zero-terminated string s of n characters with codes 32..95,
\* OLED_printP(s) makes one transaction in data mode (start, 0x78, 0x40, ...,
\* stop) that carries exactly 6n data bytes: per character, in string order,
\* one 0x00 and then the 5 font bytes at offsets (c-32)*5 .. (c-32)*5+4; "A!"
\* gives 00 7C 12 11 12 7C 00 00 00 2F 00 00.
PrintPEmitsGlyphs ==
  (job[1] = "OLED_printP" /\ out.done) =>
    LET p  == job[2]
        n  == Len(p) - 1
        cs == out.val
        d  == DataOf(SubSeq(cs, 4, Len(cs) - 1))
    IN  /\ Len(cs) = 6 * n + 4
        /\ cs[1] = <<"I2C_start">>
        /\ cs[2] = <<"I2C_write", 120>>
        /\ cs[3] = <<"I2C_write", 64>>
        /\ cs[Len(cs)] = <<"I2C_stop">>
        /\ AllWrites(SubSeq(cs, 2, Len(cs) - 1), "I2C_write")
        /\ Len(d) = 6 * n
        /\ \A k \in 1..n :
             /\ d[6 * (k - 1) + 1] = 0
             /\ \A j \in 0..4 :
                  d[6 * (k - 1) + 2 + j] = OLED_font[(p[k] - 32) * 5 + j + 1]
        /\ (p = <<65, 33, 0>> =>
              /\ (65 - 32) * 5 = 165
              /\ (33 - 32) * 5 = 5
              /\ d = <<0, 124, 18, 17, 18, 124, 0, 0, 0, 47, 0, 0>>)

PrintPEmitsGlyphsWitness ==
  /\ job = <<"OLED_printP", <<65, 33, 0>>>>
  /\ out.done
  /\ Len(out.val) = 16

\* C9: for every 8-bit b, OLED_stretch(b) is a byte that depends only on the
\* two low bits of b: its bits 0..3 all equal bit 0 of b and its bits 4..7
\* all equal bit 1 of b (00 -> 0x00, 01 -> 0x0F, 10 -> 0xF0, 11 -> 0xFF).
StretchTwoLowBits ==
  (job[1] = "T10_OLED_stretch" /\ out.done) =>
    LET b == job[2]
        r == out.val
    IN  /\ r \in 0..255
        /\ \A n \in 0..3 : Bit(r, n) = Bit(b, 0)
        /\ \A n \in 4..7 : Bit(r, n) = Bit(b, 1)
        /\ r = CASE b % 4 = 0 -> 0
                 [] b % 4 = 1 -> 15
                 [] b % 4 = 2 -> 240
                 [] b % 4 = 3 -> 255

StretchTwoLowBitsWitness ==
  /\ job = <<"T10_OLED_stretch", 254>>
  /\ out.done
  /\ out.val = 240

\* the four output bytes of a source byte: bit 2j of b fills the low half of
\* byte j, bit 2j+1 its high half (j = 0..3)
Stretched(b) == [j \in 1..4 |-> 15 * Bit(b, 2 * j - 2) + 240 * Bit(b, 2 * j - 1)]

Repeated(sb, n) == [k \in 1..(4 * n) |-> sb[((k - 1) % 4) + 1]]

\* C10: for every symbol v in 0..19, OLED_printD(v) writes exactly 64 data
\* bytes: 8 times 0x00, then the 4 stretched bytes of the first source byte
\* 4 times over, of the second source byte 6 times over, of the third source
\* byte 4 times over (8 + 16 + 24 + 16).
PrintDLayout ==
  (job[1] = "T10_OLED_printD" /\ out.done) =>
    LET v  == job[2]
        cs == out.val
        s1 == Stretched(T10_OLED_FONT[3 * v + 1])
        s2 == Stretched(T10_OLED_FONT[3 * v + 2])
        s3 == Stretched(T10_OLED_FONT[3 * v + 3])
    IN  /\ Len(cs) = 64
        /\ AllWrites(cs, "T10_I2C_write")
        /\ DataOf(cs) = [k \in 1..8 |-> 0] \o Repeated(s1, 4)
                        \o Repeated(s2, 6) \o Repeated(s3, 4)

PrintDLayoutWitness ==
  /\ job = <<"T10_OLED_printD", 17>>
  /\ out.done
  /\ Len(out.val) = 64
  /\ out.val[25][2] = 240

\* the source byte whose four stretched bytes are sb
Unstretched(sb) ==
  (Bit(sb[1], 0) + 2 * Bit(sb[1], 4)) + 4 * (Bit(sb[2], 0) + 2 * Bit(sb[2], 4))
  + 16 * (Bit(sb[3], 0) + 2 * Bit(sb[3], 4)) + 64 * (Bit(sb[4], 0) + 2 * Bit(sb[4], 4))

\* C11: for every symbol v in 0..19, OLED_printD(v) reads OLED_FONT at the
\* indices 3v, 3v+1, 3v+2 in this order, the index v + (v << 1) staying below
\* 256, and the bytes it stretches are the bytes at these indices; for v = 0
\* they are 0x7F, 0x41, 0x7F.
PrintDReadsThreeBytes ==
  (job[1] = "T10_OLED_printD" /\ out.done) =>
    LET v     == job[2]
        d     == DataOf(out.val)
        reads == T10_OLED_printD_reads(3, T10_OLED_printD_index(v))
        src   == <<Unstretched(SubSeq(d, 9, 12)), Unstretched(SubSeq(d, 25, 28)),
                   Unstretched(SubSeq(d, 49, 52))>>
    IN  /\ v + Shl(v, 1) < 256
        /\ T10_OLED_printD_index(v) = 3 * v
        /\ reads = <<3 * v, 3 * v + 1, 3 * v + 2>>
        /\ \A n \in 1..3 : reads[n] + 1 \in DOMAIN T10_OLED_FONT
        /\ src = [n \in 1..3 |-> T10_OLED_FONT[reads[n] + 1]]
        /\ (v = 0 => src = <<127, 65, 127>>)

PrintDReadsThreeBytesWitness ==
  /\ job = <<"T10_OLED_printD", 0>>
  /\ out.done
  /\ Unstretched(SubSeq(DataOf(out.val), 25, 28)) = 65
  /\ T10_OLED_printD_reads(3, T10_OLED_printD_index(job[2])) = <<0, 1, 2>>

\* C14: for every xpos and ypos in 0..255, OLED_cursor(xpos, ypos) makes
\* exactly one transaction, in command mode, with the bytes 0x78, 0x00,
\* xpos & 0x0F, 0x10 | (xpos >> 4), 0xB0 | (ypos & 0x07) in this order and
\* nothing else; for xpos in 0..127 and ypos in 0..7 the three command bytes
\* lie in 0x00..0x0F, 0x10..0x17 and 0xB0..0xB7 and give back xpos and ypos.
CursorSendsColumnAndPage ==
  (job[1] = "OLED_cursor" /\ out.done) =>
    LET xpos == job[2]
        ypos == job[3]
        cs   == out.val
        d    == DataOf(SubSeq(cs, 2, Len(cs) - 1))
    IN  /\ Len(cs) = 7
        /\ cs[1] = <<"I2C_start">>
        /\ cs[7] = <<"I2C_stop">>
        /\ AllWrites(SubSeq(cs, 2, 6), "I2C_write")
        /\ d = <<120, 0, xpos % 16, 16 + (xpos \div 16), 176 + (ypos % 8)>>
        /\ (xpos \in 0..127 /\ ypos \in 0..7) =>
             /\ d[3] \in 0..15
             /\ d[4] \in 16..23
             /\ d[5] \in 176..183
             /\ 16 * (d[4] - 16) + d[3] = xpos
             /\ d[5] - 176 = ypos

CursorSendsColumnAndPageWitness ==
  /\ job = <<"OLED_cursor", 93, 2>>
  /\ out.done
  /\ DataOf(SubSeq(out.val, 2, 6)) = <<120, 0, 13, 21, 178>>

-----------------------------------------------------------------------------
(* Properties of the big-digit main loop, checked under SpecCounter *)

\* (counter_c, counter_b, counter_a) read as one number of 24 bits
CounterValue == counter_a + 256 * counter_b + 65536 * counter_c

\* C12: counter_b is incremented exactly in the iterations in which counter_a
\* wraps from 0xFF to 0x00, counter_c exactly in those in which counter_b
\* thereby wraps from 0xFF to 0x00, each by one; after n iterations the three
\* counters read as a 24-bit number equal n mod 2^24.
CountersCarry ==
  /\ [](CounterValue = refreshes % (2^24))
  /\ [][(main_pc = 205 /\ main_pc' = 204) =>
          /\ counter_a' = (counter_a + 1) % 256
          /\ counter_b' # counter_b <=> (counter_a = 255 /\ counter_a' = 0)
          /\ counter_b' \in {counter_b, (counter_b + 1) % 256}
          /\ counter_c' # counter_c <=>
               (counter_a = 255 /\ counter_b = 255 /\ counter_b' = 0)
          /\ counter_c' \in {counter_c, (counter_c + 1) % 256}]_vars

CountersCarryWitness ==
  /\ refreshes = 2^24
  /\ main_pc = 204
  /\ counter_a = 0
  /\ counter_b = 0
  /\ counter_c = 0


\* the byte b with its bit k inverted
Flip(b, k) == IF Bit(b, k) = 1 THEN b - 2^k ELSE b + 2^k

\* bit n of output byte j is one of the four bits that belong to source bit k
Covers(k, j, n) == j = k \div 2 /\ n \in (4 * (k % 2))..(4 * (k % 2) + 3)

\* C20: for every byte b, the stretch loop of OLED_printD leaves
\* sb[j] = OLED_stretch(b >> 2j) for j = 0..3, whatever sb held before.  For
\* every k in 0..7, the bits 4*(k mod 2) .. 4*(k mod 2)+3 of sb[k div 2] all
\* equal bit k of b, and inverting bit k of b changes exactly these four
\* output bits and no other: the 8 source bits become 32 output bits.
StretchCoversAllBits ==
  (job[1] = "T10_OLED_printD_stretch" /\ out.done) =>
    LET b  == job[2]
        sb == out.val
    IN  /\ Len(sb) = 4
        /\ \A j \in 0..3 : sb[j + 1] = T10_OLED_stretch(Shr(b, 2 * j))
        /\ \A k \in 0..7 :
             LET sb2 == T10_OLED_printD_stretch(0, Flip(b, k), job[3])
             IN  \A j \in 0..3 : \A n \in 0..7 :
                   /\ Covers(k, j, n) => Bit(sb[j + 1], n) = Bit(b, k)
                   /\ Covers(k, j, n) <=> Bit(sb[j + 1], n) # Bit(sb2[j + 1], n)
        /\ Cardinality({ <<k, j, n>> \in (0..7) \X (0..3) \X (0..7) : Covers(k, j, n) })
             = 32

StretchCoversAllBitsWitness ==
  /\ job = <<"T10_OLED_printD_stretch", 73, <<255, 255, 255, 255>> >>
  /\ out.done
  /\ out.val = <<15, 240, 0, 15>>

-----------------------------------------------------------------------------
(* Properties of the frame buffer, checked under SpecCounter *)

\* hexadecimal digit d of n, digit 0 the least significant
HexDigit(n, d) == (n \div (16^d)) % 16

\* C21: at the n-th call of OLED_printB of the big-digit program, n counted
\* from 0, positions 0, 1, 3, 4, 6, 7 of the buffer passed hold the six
\* hexadecimal digits of n mod 2^24, most significant first, each in 0..15,
\* and position 5 holds the symbol 16.
BufferShowsCount ==
  InPrintB =>
    LET buf == api[1][2]
        n   == refreshes % (2^24)
    IN  /\ buf = buffer
        /\ buf[1] = HexDigit(n, 5)
        /\ buf[2] = HexDigit(n, 4)
        /\ buf[4] = HexDigit(n, 3)
        /\ buf[5] = HexDigit(n, 2)
        /\ buf[7] = HexDigit(n, 1)
        /\ buf[8] = HexDigit(n, 0)
        /\ \A k \in {1, 2, 4, 5, 7, 8} : buf[k] \in 0..15
        /\ buf[6] = 16

\* call number 0x0100AB
BufferShowsCountWitness ==
  /\ InPrintB
  /\ refreshes = 65536 + 171
  /\ api[1][2][1] = 0
  /\ api[1][2][2] = 1
  /\ api[1][2][4] = 0
  /\ api[1][2][5] = 0
  /\ api[1][2][7] = 10
  /\ api[1][2][8] = 11

\* the symbol that bit 5 of counter_a selects for position 2
ColonFor(a) == IF BitAnd(a, 32) # 0 THEN 17 ELSE 19

\* C22 as stated: at every call of OLED_printB position 2 of the buffer holds
\* the colon (17) exactly when bit 5 of counter_a is set, and the blank (19)
\* otherwise.  The first call refutes it: counter_a is 0 and position 2 holds
\* the 17 of the initialiser of line 197.
ColonFollowsBit5 == InPrintB => api[1][2][3] = ColonFor(counter_a)

\* C22: at every call of OLED_printB but the first, position 2 of the buffer
\* holds the colon (17) exactly when bit 5 of counter_a is set and the blank
\* (19) otherwise; at the first call counter_a is 0 and position 2 holds the
\* colon, as line 197 initialises it.
ColonFollowsBit5AfterFirst ==
  InPrintB =>
    /\ api[1][2][3] \in {17, 19}
    /\ refreshes = 0 => (counter_a = 0 /\ api[1][2][3] = 17)
    /\ refreshes # 0 => api[1][2][3] = ColonFor(counter_a)

ColonFollowsBit5AfterFirstWitness ==
  /\ InPrintB
  /\ refreshes = 32
  /\ counter_a = 32
  /\ api[1][2][3] = 17

-----------------------------------------------------------------------------
(* Progress of the two programs, checked under SpecLive *)

\* whatever the pins read, the next step of the engine moves it on
EngineMoves ==
  eng.fn # "idle" => \A p \in PinSet(eng) : Master(EngineStep(WithPins(eng, p))) # eng

\* the loop of the text program is at its first statement, line 258
LoopTop == prog = "t13" /\ Finished(<<"OLED_cursor", 20, 0>>)

\* the loop of the text program has run its last statement, line 290
LoopEnd == prog = "t13" /\ main_pc = 258 /\ Finished(<<"I2C_stop">>)

\* the big-digit program has made every refresh that the bound MaxRefresh
\* lets the model make, each one followed by the update of lines 205-217
AllRefreshed == prog = "t10" /\ refreshes = MaxRefresh /\ main_pc = 204

\* C23: every transaction either program begins is completed: no step of the
\* engine waits for a pin to read a certain level, the wires are outside a
\* transaction again and again (so every START is followed by its STOP), and
\* the main loops go round: the text program is at the top and at the end of
\* its loop again and again, and the big-digit program makes refresh after
\* refresh, as many as the bound MaxRefresh lets the model make.
TransactionsComplete ==
  /\ [](EngineMoves)
  /\ []<>(~mon.open)
  /\ []<>(LoopTop \/ AllRefreshed)
  /\ []<>(LoopEnd \/ AllRefreshed)

\* the first refresh of the big-digit program is complete and the transaction
\* of the second has begun
TransactionsCompleteWitness ==
  /\ InPrintB
  /\ refreshes = 1
  /\ mon.open
  /\ mon.bytes = << >>

=============================================================================
